---------------------------- MODULE Spec2Model ----------------------------
(***************************************************************************)
(* ThreadSafeTypedQueue<T, CAPACITY> of src/src/thread_safe_typed_queue.rs *)
(* as a state machine: a ring buffer (head, tail, buffer) behind one       *)
(* Mutex, the element count in an AtomicUsize beside it, and RefGuard, the *)
(* borrow that keeps the MutexGuard until it is dropped.                   *)
(*                                                                         *)
(* The queue only copies its elements (T: Copy), so every push call brings *)
(* a fresh value (the number of the call): a value then names the call     *)
(* that stored it.  Slot content 0 is MaybeUninit::uninit().               *)
(*                                                                         *)
(* Each call is cut where another thread can observe it: the call itself,  *)
(* protected_data.lock(), the part that touches head/tail/buffer, and each *)
(* access to the atomic size.  By-value push/push_overwrite/pop forward to *)
(* the reference forms and are the same steps.                             *)
(*                                                                         *)
(* push, push_overwrite and pop take &mut self, front and back &self.  The *)
(* threads of the model call all of them on the one shared queue, which is *)
(* the use the Mutex and the atomic are there for.                         *)
(*                                                                         *)
(* BasicTypedQueue<T, CAPACITY> of src/src/basic_typed_queue.rs, the queue *)
(* without lock, is a set of operators on a record; one instance of it     *)
(* gets every call of the shared queue, in the order of the lock.          *)
(***************************************************************************)
EXTENDS Integers, Sequences, FiniteSets, TLC

\* ------------------------------------------------------------- bounds
CAPACITY == 3        \* const generic CAPACITY of the queue under check
NumThreads == 2      \* threads sharing the queue
MaxCalls == 5        \* calls made in one run when all threads run every operation
MaxPushPop == 7      \* calls made in one run when the threads only push and pop
MaxLiveCalls == 3    \* calls made in one run under the fair scheduler
MaxSeqCalls == 10    \* calls made in one run by a single thread
MaxQueryCalls == 3   \* calls made in one run when the threads also query

Threads == 1..NumThreads
Slots == 0..(CAPACITY - 1)
Uninit == 0
NoGuard == -1
Free == 0

VARIABLES
    size,       \* ThreadSafeTypedQueue.size (AtomicUsize)
    head,       \* QueueData.head
    tail,       \* QueueData.tail
    buffer,     \* QueueData.buffer
    lock,       \* protected_data: Free, or the thread that holds the mutex
    poisoned,   \* protected_data's poison flag
    pc,         \* where each thread is in its call
    input,      \* the argument of the thread's push call
    local,      \* the thread's local: new_size (push_ref_overwrite), *output (pop_ref)
    guard,      \* the index of the RefGuard the thread holds, or NoGuard
    ret,        \* what the thread's last call returned
    calls,      \* history: calls made so far
    pushed,     \* history: values of the pushes that returned Ok, in order
    popped,     \* history: values the pops returned, in order
    fifo,       \* history: what a FIFO queue that drops its oldest on overwrite holds
    basic,      \* a BasicTypedQueue given the same calls in the order of the lock
    expect,     \* what the BasicTypedQueue returned for the call that holds the lock
    peek,       \* history: the element the last front() gave, 0 once a mutator returned Ok
    seen        \* what the last size()/is_empty()/is_full()/capacity() returned, and when

qvars == <<size, head, tail, buffer>>
hvars == <<pushed, popped, fifo>>
gvars == <<basic, peek, seen>>
vars == <<size, head, tail, buffer, lock, poisoned, pc, input, local, guard,
          ret, calls, pushed, popped, fifo, basic, expect, peek, seen>>

\* ------------------------------------------------------------ results
NoRet == [kind |-> "none", val |-> 0]
Ok == [kind |-> "Ok", val |-> 0]
OkVal(v) == [kind |-> "Ok", val |-> v]
Err(e) == [kind |-> e, val |-> 0]

\* ------------------------------------------------------- pure helpers
\* Wraps one slot early.
NextIndexEarlyWrap(i) == (i + 1) % (CAPACITY - 1)

\* (index + 1) % CAPACITY, the advance of head and of tail
NextIndex(i) == (i + 1) % CAPACITY

\* Steps forward instead of back.
BackIndexForward(i) == (i + 1) % CAPACITY

\* (guard.tail + CAPACITY - 1) % CAPACITY
BackIndex(i) == (i + CAPACITY - 1) % CAPACITY

\* Forgets the clamp at CAPACITY.
MinLeft(a, b) == a

\* std::cmp::min
Min(a, b) == IF a < b THEN a ELSE b

\* Leaves the counter as it is.
fetch_add_none(s) == s

\* self.size.fetch_add(1): the new value of the counter
fetch_add(s) == s + 1

\* Leaves the counter as it is.
fetch_sub_none(s) == s

\* self.size.fetch_sub(1): the new value of the counter; it is reached only
\* with s > 0, so it never wraps
fetch_sub(s) == s - 1

\* size(): self.size.load(Relaxed)
size_load == size

\* Compares with > instead of ==.
is_full_greater == size_load > CAPACITY

\* is_full(): self.size() == CAPACITY
is_full == size_load = CAPACITY

\* Never true.
is_empty_negative == size_load < 0

\* is_empty(): self.size() == 0
is_empty == size_load = 0

\* capacity(): CAPACITY
capacity == CAPACITY

\* What reading a slot as T gives: its value, or any bit pattern if the slot
\* was never written.
ReadSlot(i) == IF buffer[i] = Uninit THEN 0..MaxCalls ELSE {buffer[i]}

\* ----------------------------------------------------- BasicTypedQueue
\* BasicTypedQueue::new()
BasicNew == [size |-> 0, head |-> 0, tail |-> 0, buffer |-> [i \in Slots |-> Uninit]]

\* push_ref (push forwards to it): the queue after the call and the result
BasicPushRef(q, v) ==
    IF q.size = CAPACITY
    THEN [q |-> q, r |-> Err("QueueFull")]
    ELSE [q |-> [q EXCEPT !.buffer[q.tail] = v,
                          !.tail = (q.tail + 1) % CAPACITY,
                          !.size = q.size + 1],
          r |-> Ok]

\* push_ref_overwrite (push_overwrite forwards to it)
BasicPushRefOverwrite(q, v) ==
    [q |-> [q EXCEPT !.buffer[q.tail] = v,
                     !.tail = (q.tail + 1) % CAPACITY,
                     !.size = IF q.size + 1 < CAPACITY THEN q.size + 1 ELSE CAPACITY],
     r |-> Ok]

\* pop_ref (pop forwards to it and returns *output)
BasicPopRef(q) ==
    IF q.size = 0
    THEN [q |-> q, r |-> Err("QueueEmpty")]
    ELSE [q |-> [q EXCEPT !.head = (q.head + 1) % CAPACITY, !.size = q.size - 1],
          r |-> OkVal(q.buffer[q.head])]

\* front: the element the returned reference points at
BasicFront(q) ==
    IF q.size = 0
    THEN [q |-> q, r |-> Err("QueueEmpty")]
    ELSE [q |-> q, r |-> OkVal(q.buffer[q.head])]

\* back
BasicBack(q) ==
    IF q.size = 0
    THEN [q |-> q, r |-> Err("QueueEmpty")]
    ELSE [q |-> q, r |-> OkVal(q.buffer[(q.tail + CAPACITY - 1) % CAPACITY])]

\* The call on the BasicTypedQueue that matches a call of the shared queue.
BasicCall(label, q, v) ==
    CASE label = "push_lock" -> BasicPushRef(q, v)
      [] label = "ow_lock" -> BasicPushRefOverwrite(q, v)
      [] label = "pop_lock" -> BasicPopRef(q)
      [] label = "front_lock" -> BasicFront(q)
      [] label = "back_lock" -> BasicBack(q)

\* No query has been made.
NotSeen == [op |-> "none", num |-> 0, flag |-> FALSE, when |-> "free"]

\* ---------------------------------------------------------------- Init
Init ==
    /\ size = 0
    /\ head = 0
    /\ tail = 0
    /\ buffer = [i \in Slots |-> Uninit]
    /\ lock = Free
    /\ poisoned = FALSE
    /\ pc = [t \in Threads |-> "idle"]
    /\ input = [t \in Threads |-> 0]
    /\ local = [t \in Threads |-> 0]
    /\ guard = [t \in Threads |-> NoGuard]
    /\ ret = [t \in Threads |-> NoRet]
    /\ calls = 0
    /\ pushed = <<>>
    /\ popped = <<>>
    /\ fifo = <<>>
    /\ basic = BasicNew
    /\ expect = NoRet
    /\ peek = 0
    /\ seen = NotSeen

\* --------------------------------------------------------------- calls
\* A thread enters a call and goes to protected_data.lock().  The mutators
\* take &mut self: a thread that holds a RefGuard cannot call them.  The
\* value a push brings is the number of the call.
Enter(t, label, v) ==
    /\ pc[t] = "idle"
    /\ calls' = calls + 1
    /\ pc' = [pc EXCEPT ![t] = label]
    /\ input' = [input EXCEPT ![t] = v]
    /\ ret' = [ret EXCEPT ![t] = NoRet]
    /\ UNCHANGED <<qvars, lock, poisoned, local, guard, hvars, gvars, expect>>

CallPush(t) == guard[t] = NoGuard /\ Enter(t, "push_lock", calls + 1)

CallPushOverwrite(t) == guard[t] = NoGuard /\ Enter(t, "ow_lock", calls + 1)

CallPop(t) == guard[t] = NoGuard /\ Enter(t, "pop_lock", 0)

CallFront(t) == Enter(t, "front_lock", 0)

CallBack(t) == Enter(t, "back_lock", 0)

\* ---------------------------------------------------------------- lock
LockLabels == {"push_lock", "ow_lock", "pop_lock", "front_lock", "back_lock"}

AfterLock(label) ==
    CASE label = "push_lock" -> "push_check"
      [] label = "ow_lock" -> "ow_write"
      [] label = "pop_lock" -> "pop_check"
      [] label = "front_lock" -> "front_check"
      [] label = "back_lock" -> "back_check"

\* A lock that excludes nobody.
LockAlways == TRUE

\* Mutex::lock() returns only when no thread holds the mutex.
LockAvailable == lock = Free

\* The thread leaves its call with result r; with drop = TRUE the MutexGuard
\* goes out of scope on the way.  The BasicTypedQueue's result is history.
Return(t, r, drop) ==
    /\ pc' = [pc EXCEPT ![t] = "idle"]
    /\ ret' = [ret EXCEPT ![t] = r]
    /\ lock' = IF drop THEN Free ELSE lock
    /\ input' = [input EXCEPT ![t] = 0]
    /\ local' = [local EXCEPT ![t] = 0]
    /\ expect' = NoRet

\* A re-entrant lock: the thread that holds the mutex gets it again.
AcquireReentrant(t) ==
    /\ pc[t] \in LockLabels
    /\ lock \in {Free, t}
    /\ ~poisoned
    /\ lock' = t
    /\ pc' = [pc EXCEPT ![t] = AfterLock(pc[t])]
    /\ basic' = BasicCall(pc[t], basic, input[t]).q
    /\ expect' = BasicCall(pc[t], basic, input[t]).r
    /\ UNCHANGED <<qvars, poisoned, input, local, guard, ret, calls, hvars, peek, seen>>

\* protected_data.lock() gives Ok(guard).  This is where the call takes its
\* place in the order of the lock: the BasicTypedQueue gets the same call.
Acquire(t) ==
    /\ pc[t] \in LockLabels
    /\ LockAvailable
    /\ ~poisoned
    /\ lock' = t
    /\ pc' = [pc EXCEPT ![t] = AfterLock(pc[t])]
    /\ basic' = BasicCall(pc[t], basic, input[t]).q
    /\ expect' = BasicCall(pc[t], basic, input[t]).r
    /\ UNCHANGED <<qvars, poisoned, input, local, guard, ret, calls, hvars, peek, seen>>

\* Takes the data out of a poisoned lock and goes on.
AcquireIgnoresPoison(t) ==
    /\ pc[t] \in LockLabels
    /\ LockAvailable
    /\ poisoned
    /\ lock' = t
    /\ pc' = [pc EXCEPT ![t] = AfterLock(pc[t])]
    /\ UNCHANGED <<qvars, poisoned, input, local, guard, ret, calls, hvars, gvars, expect>>

\* protected_data.lock() gives Err(PoisonError): every operation returns
\* MutexPoisoned, and the guard inside the error is dropped with it.
AcquirePoisoned(t) ==
    /\ pc[t] \in LockLabels
    /\ LockAvailable
    /\ poisoned
    /\ Return(t, Err("MutexPoisoned"), TRUE)
    /\ UNCHANGED <<qvars, poisoned, guard, calls, hvars, gvars>>

\* ------------------------------------------------------------ push_ref
\* Lets the MutexGuard go after the write, before the counter is updated.
PushCheckDropsGuard(t) ==
    /\ pc[t] = "push_check"
    /\ IF is_full
       THEN /\ Return(t, Err("QueueFull"), TRUE)
            /\ UNCHANGED <<tail, buffer>>
       ELSE /\ buffer' = [buffer EXCEPT ![tail] = input[t]]
            /\ tail' = NextIndex(tail)
            /\ pc' = [pc EXCEPT ![t] = "push_size"]
            /\ lock' = Free
            /\ UNCHANGED <<ret, input, local, expect>>
    /\ UNCHANGED <<size, head, poisoned, guard, calls, hvars, gvars>>

\* is_full() under the lock, then the write at tail and tail's advance.
PushCheck(t) ==
    /\ pc[t] = "push_check"
    /\ IF is_full
       THEN /\ Return(t, Err("QueueFull"), TRUE)
            /\ UNCHANGED <<buffer, tail>>
       ELSE /\ buffer' = [buffer EXCEPT ![tail] = input[t]]
            /\ tail' = NextIndex(tail)
            /\ pc' = [pc EXCEPT ![t] = "push_size"]
            /\ UNCHANGED <<ret, lock, input, local, expect>>
    /\ UNCHANGED <<size, head, poisoned, guard, calls, hvars, gvars>>

\* self.size.fetch_add(1), Ok(()), and the guard is dropped.
PushSize(t) ==
    /\ pc[t] = "push_size"
    /\ size' = fetch_add(size)
    /\ Return(t, Ok, TRUE)
    /\ pushed' = Append(pushed, input[t])
    /\ fifo' = Append(fifo, input[t])
    /\ peek' = 0
    /\ UNCHANGED <<head, tail, buffer, poisoned, guard, calls, popped, basic, seen>>

\* -------------------------------------------------- push_ref_overwrite
\* Writes the slot and leaves tail where it was.
OwWriteKeepsTail(t) ==
    /\ pc[t] = "ow_write"
    /\ buffer' = [buffer EXCEPT ![tail] = input[t]]
    /\ pc' = [pc EXCEPT ![t] = "ow_load"]
    /\ UNCHANGED <<size, head, tail, lock, poisoned, input, local, guard, ret, calls,
                   hvars, gvars, expect>>

\* The write at tail and tail's advance, whatever the size.
OwWrite(t) ==
    /\ pc[t] = "ow_write"
    /\ buffer' = [buffer EXCEPT ![tail] = input[t]]
    /\ tail' = NextIndex(tail)
    /\ pc' = [pc EXCEPT ![t] = "ow_load"]
    /\ UNCHANGED <<size, head, lock, poisoned, input, local, guard, ret, calls,
                   hvars, gvars, expect>>

\* Takes CAPACITY as the new size whatever the counter says.
OwLoadFull(t) ==
    /\ pc[t] = "ow_load"
    /\ local' = [local EXCEPT ![t] = CAPACITY]
    /\ pc' = [pc EXCEPT ![t] = "ow_store"]
    /\ UNCHANGED <<qvars, lock, poisoned, input, guard, ret, calls, hvars, gvars, expect>>

\* let new_size = min(self.size.load() + 1, CAPACITY)
OwLoad(t) ==
    /\ pc[t] = "ow_load"
    /\ local' = [local EXCEPT ![t] = Min(size_load + 1, CAPACITY)]
    /\ pc' = [pc EXCEPT ![t] = "ow_store"]
    /\ UNCHANGED <<qvars, lock, poisoned, input, guard, ret, calls, hvars, gvars, expect>>

\* Reports QueueFull when the queue was full already.
OwStoreReportsFull(t) ==
    /\ pc[t] = "ow_store"
    /\ size' = local[t]
    /\ Return(t, IF size_load = CAPACITY THEN Err("QueueFull") ELSE Ok, TRUE)
    /\ pushed' = Append(pushed, input[t])
    /\ fifo' = Append(IF Len(fifo) >= CAPACITY THEN Tail(fifo) ELSE fifo, input[t])
    /\ peek' = 0
    /\ UNCHANGED <<head, tail, buffer, poisoned, guard, calls, popped, basic, seen>>

\* self.size.store(new_size), Ok(()), and the guard is dropped.
OwStore(t) ==
    /\ pc[t] = "ow_store"
    /\ size' = local[t]
    /\ Return(t, Ok, TRUE)
    /\ pushed' = Append(pushed, input[t])
    /\ fifo' = Append(IF Len(fifo) >= CAPACITY THEN Tail(fifo) ELSE fifo, input[t])
    /\ peek' = 0
    /\ UNCHANGED <<head, tail, buffer, poisoned, guard, calls, popped, basic, seen>>

\* ------------------------------------------------------------- pop_ref
\* Copies the newest element out.
PopCheckNewest(t) ==
    /\ pc[t] = "pop_check"
    /\ IF is_empty
       THEN /\ Return(t, Err("QueueEmpty"), TRUE)
            /\ UNCHANGED head
       ELSE /\ \E v \in ReadSlot(BackIndex(tail)) : local' = [local EXCEPT ![t] = v]
            /\ head' = NextIndex(head)
            /\ pc' = [pc EXCEPT ![t] = "pop_size"]
            /\ UNCHANGED <<ret, lock, input, expect>>
    /\ UNCHANGED <<size, tail, buffer, poisoned, guard, calls, hvars, gvars>>

\* is_empty() under the lock, then the copy out of head and head's advance.
PopCheck(t) ==
    /\ pc[t] = "pop_check"
    /\ IF is_empty
       THEN /\ Return(t, Err("QueueEmpty"), TRUE)
            /\ UNCHANGED head
       ELSE /\ \E v \in ReadSlot(head) : local' = [local EXCEPT ![t] = v]
            /\ head' = NextIndex(head)
            /\ pc' = [pc EXCEPT ![t] = "pop_size"]
            /\ UNCHANGED <<ret, lock, input, expect>>
    /\ UNCHANGED <<size, tail, buffer, poisoned, guard, calls, hvars, gvars>>

\* self.size.fetch_sub(1), Ok(()), and the guard is dropped; pop() hands the
\* copied value on.
PopSize(t) ==
    /\ pc[t] = "pop_size"
    /\ size' = fetch_sub(size)
    /\ Return(t, OkVal(local[t]), TRUE)
    /\ popped' = Append(popped, local[t])
    /\ fifo' = IF fifo = <<>> THEN fifo ELSE Tail(fifo)
    /\ peek' = 0
    /\ UNCHANGED <<head, tail, buffer, poisoned, guard, calls, pushed, basic, seen>>

\* -------------------------------------------------------- front / back
\* Returns QueueEmpty with the mutex still locked.
FrontCheckKeepsLock(t) ==
    /\ pc[t] = "front_check"
    /\ IF is_empty
       THEN /\ Return(t, Err("QueueEmpty"), FALSE)
            /\ UNCHANGED <<guard, peek>>
       ELSE /\ guard' = [guard EXCEPT ![t] = head]
            /\ \E v \in ReadSlot(guard'[t]) : peek' = v
            /\ Return(t, Ok, FALSE)
    /\ UNCHANGED <<qvars, poisoned, calls, hvars, basic, seen>>

\* is_empty() under the lock; Ok(RefGuard::new(guard, guard.head)) keeps the
\* mutex locked.
FrontCheck(t) ==
    /\ pc[t] = "front_check"
    /\ IF is_empty
       THEN /\ Return(t, Err("QueueEmpty"), TRUE)
            /\ UNCHANGED <<guard, peek>>
       ELSE /\ guard' = [guard EXCEPT ![t] = head]
            /\ \E v \in ReadSlot(guard'[t]) : peek' = v
            /\ Return(t, Ok, FALSE)
    /\ UNCHANGED <<qvars, poisoned, calls, hvars, basic, seen>>

\* The same with index (guard.tail + CAPACITY - 1) % CAPACITY.
BackCheck(t) ==
    /\ pc[t] = "back_check"
    /\ IF is_empty
       THEN /\ Return(t, Err("QueueEmpty"), TRUE)
            /\ UNCHANGED guard
       ELSE /\ guard' = [guard EXCEPT ![t] = BackIndex(tail)]
            /\ Return(t, Ok, FALSE)
    /\ UNCHANGED <<qvars, poisoned, calls, hvars, gvars>>

\* --------------------------------------------------------------- guard
\* RefGuard::deref: the element the guard points at.
Deref(t) == ReadSlot(guard[t])

\* The RefGuard goes out of scope: its MutexGuard unlocks the mutex.
DropGuard(t) ==
    /\ pc[t] = "idle"
    /\ guard[t] # NoGuard
    /\ guard' = [guard EXCEPT ![t] = NoGuard]
    /\ lock' = Free
    /\ UNCHANGED <<qvars, poisoned, pc, input, local, ret, calls, hvars, gvars, expect>>

\* Unwinds without poisoning the mutex.
PanicNoPoison(t) ==
    /\ pc[t] = "idle"
    /\ guard[t] # NoGuard
    /\ guard' = [guard EXCEPT ![t] = NoGuard]
    /\ lock' = Free
    /\ pc' = [pc EXCEPT ![t] = "dead"]
    /\ UNCHANGED <<qvars, poisoned, input, local, ret, calls, hvars, gvars, expect>>

\* The thread panics while it holds a RefGuard: unwinding drops the
\* MutexGuard, which poisons the mutex.
PanicWithGuard(t) ==
    /\ pc[t] = "idle"
    /\ guard[t] # NoGuard
    /\ guard' = [guard EXCEPT ![t] = NoGuard]
    /\ lock' = Free
    /\ poisoned' = TRUE
    /\ pc' = [pc EXCEPT ![t] = "dead"]
    /\ UNCHANGED <<qvars, input, local, ret, calls, hvars, gvars, expect>>

\* front()/back() called by the thread that holds a RefGuard: lock() on a
\* mutex the thread already holds never returns; it deadlocks (no step) or
\* panics, and the panic unwinds through the guard.
RelockPanic(t) ==
    /\ pc[t] \in LockLabels
    /\ lock = t
    /\ guard' = [guard EXCEPT ![t] = NoGuard]
    /\ lock' = Free
    /\ poisoned' = TRUE
    /\ pc' = [pc EXCEPT ![t] = "dead"]
    /\ UNCHANGED <<qvars, input, local, ret, calls, hvars, gvars, expect>>

\* ------------------------------------------------------------- queries
\* The labels of a thread that is inside push, push_overwrite or pop, past
\* the lock.
MutatorLabels == {"push_check", "push_size", "ow_write", "ow_load", "ow_store",
                  "pop_check", "pop_size"}

\* What the lock is doing: poisoned, held by a thread inside a mutator, held
\* by a RefGuard, or free.
LockState ==
    IF poisoned THEN "poisoned"
    ELSE IF \E u \in Threads : pc[u] \in MutatorLabels THEN "mutator"
    ELSE IF lock # Free THEN "guard"
    ELSE "free"

\* size(), is_empty(), is_full() and capacity() take &self and touch the
\* atomic or the const parameter only: a thread that is not inside another
\* call makes the call in one step, whoever holds the lock.  seen keeps the
\* answer (a number or a flag) and what the lock was doing then.
QueryStepLocks(t, op, num, flag) ==
    /\ pc[t] = "idle"
    /\ LockAvailable
    /\ seen' = [op |-> op, num |-> num, flag |-> flag, when |-> LockState]
    /\ UNCHANGED <<qvars, lock, poisoned, pc, input, local, guard, ret, calls,
                   hvars, basic, expect, peek>>

QueryStep(t, op, num, flag) ==
    /\ pc[t] = "idle"
    /\ seen' = [op |-> op, num |-> num, flag |-> flag, when |-> LockState]
    /\ UNCHANGED <<qvars, lock, poisoned, pc, input, local, guard, ret, calls,
                   hvars, basic, expect, peek>>

QuerySize(t) == QueryStep(t, "size", size_load, FALSE)

QueryIsEmpty(t) == QueryStep(t, "is_empty", 0, is_empty)

QueryIsFull(t) == QueryStep(t, "is_full", 0, is_full)

QueryCapacity(t) == QueryStep(t, "capacity", capacity, FALSE)

\* ------------------------------------------------------ specifications
\* Every operation, every thread.
Next ==
    \E t \in Threads :
        \/ calls < MaxCalls /\ CallPush(t)
        \/ calls < MaxCalls /\ CallPushOverwrite(t)
        \/ calls < MaxCalls /\ CallPop(t)
        \/ calls < MaxCalls /\ CallFront(t)
        \/ calls < MaxCalls /\ CallBack(t)
        \/ Acquire(t)
        \/ AcquirePoisoned(t)
        \/ PushCheck(t)
        \/ PushSize(t)
        \/ OwWrite(t)
        \/ OwLoad(t)
        \/ OwStore(t)
        \/ PopCheck(t)
        \/ PopSize(t)
        \/ FrontCheck(t)
        \/ BackCheck(t)
        \/ DropGuard(t)
        \/ PanicWithGuard(t)
        \/ RelockPanic(t)

Spec == Init /\ [][Next]_vars

\* Threads that only call push and pop.
NextPushPop ==
    \E t \in Threads :
        \/ calls < MaxPushPop /\ CallPush(t)
        \/ calls < MaxPushPop /\ CallPop(t)
        \/ Acquire(t)
        \/ PushCheck(t)
        \/ PushSize(t)
        \/ PopCheck(t)
        \/ PopSize(t)

SpecPushPop == Init /\ [][NextPushPop]_vars

\* One thread that only calls push and pop.
NextSeqPushPop ==
    \/ calls < MaxSeqCalls /\ CallPush(1)
    \/ calls < MaxSeqCalls /\ CallPop(1)
    \/ Acquire(1)
    \/ PushCheck(1)
    \/ PushSize(1)
    \/ PopCheck(1)
    \/ PopSize(1)

SpecSeqPushPop == Init /\ [][NextSeqPushPop]_vars

\* One thread, every operation, no panic; it drops a RefGuard before its
\* next call.
NextSeq ==
    \/ calls < MaxSeqCalls /\ CallPush(1)
    \/ calls < MaxSeqCalls /\ CallPushOverwrite(1)
    \/ calls < MaxSeqCalls /\ CallPop(1)
    \/ calls < MaxSeqCalls /\ guard[1] = NoGuard /\ CallFront(1)
    \/ calls < MaxSeqCalls /\ guard[1] = NoGuard /\ CallBack(1)
    \/ Acquire(1)
    \/ PushCheck(1)
    \/ PushSize(1)
    \/ OwWrite(1)
    \/ OwLoad(1)
    \/ OwStore(1)
    \/ PopCheck(1)
    \/ PopSize(1)
    \/ FrontCheck(1)
    \/ BackCheck(1)
    \/ DropGuard(1)

SpecSeq == Init /\ [][NextSeq]_vars

\* Every operation, every thread, no panic, under a scheduler that lets a
\* thread inside a call go on (WF) and a lock that does not pass a waiting
\* thread over forever (SF).  A thread may keep a RefGuard as long as it
\* likes.
Running(t) ==
    \/ PushCheck(t)
    \/ PushSize(t)
    \/ OwWrite(t)
    \/ OwLoad(t)
    \/ OwStore(t)
    \/ PopCheck(t)
    \/ PopSize(t)
    \/ FrontCheck(t)
    \/ BackCheck(t)

NextLive ==
    \E t \in Threads :
        \/ calls < MaxLiveCalls /\ CallPush(t)
        \/ calls < MaxLiveCalls /\ CallPushOverwrite(t)
        \/ calls < MaxLiveCalls /\ CallPop(t)
        \/ calls < MaxLiveCalls /\ CallFront(t)
        \/ calls < MaxLiveCalls /\ CallBack(t)
        \/ Acquire(t)
        \/ Running(t)
        \/ DropGuard(t)

\* Every operation and the four queries, every thread, with panics.
NextQuery ==
    \E t \in Threads :
        \/ calls < MaxQueryCalls /\ CallPush(t)
        \/ calls < MaxQueryCalls /\ CallPushOverwrite(t)
        \/ calls < MaxQueryCalls /\ CallPop(t)
        \/ calls < MaxQueryCalls /\ CallFront(t)
        \/ calls < MaxQueryCalls /\ CallBack(t)
        \/ Acquire(t)
        \/ AcquirePoisoned(t)
        \/ Running(t)
        \/ DropGuard(t)
        \/ PanicWithGuard(t)
        \/ RelockPanic(t)
        \/ QuerySize(t)
        \/ QueryIsEmpty(t)
        \/ QueryIsFull(t)
        \/ QueryCapacity(t)

SpecQuery == Init /\ [][NextQuery]_vars

SpecLive ==
    /\ Init
    /\ [][NextLive]_vars
    /\ \A t \in Threads : WF_vars(Running(t)) /\ SF_vars(Acquire(t))

TypeOK ==
    /\ size \in 0..CAPACITY
    /\ head \in Slots
    /\ tail \in Slots
    /\ lock \in {Free} \cup Threads

\* ============================================================== claims
\* The live elements, oldest first: the size slots from head on.
Live == [i \in 1..size |-> buffer[(head + i - 1) % CAPACITY]]

Idle == \A t \in Threads : pc[t] \in {"idle", "dead"}

\* C1: with only push and pop called (SpecSeqPushPop), the i-th successful
\* pop returns the value of the i-th successful push, also after head and
\* tail have passed the wrap point CAPACITY-1 -> 0.
C1_FifoOrder ==
    /\ Len(popped) <= Len(pushed)
    /\ \A i \in 1..Len(popped) : popped[i] = pushed[i]

\* A pop has returned a value that was stored in slot 0 after tail wrapped,
\* and head has wrapped too.
C1_PoppedAcrossWrap ==
    /\ Len(popped) = CAPACITY + 1
    /\ popped[CAPACITY + 1] = pushed[CAPACITY + 1]
    /\ head = 1

\* C2: in every reachable state of every interleaving of all operations,
\* 0 <= size() <= capacity(), is_full() = (size() = capacity()) and
\* is_empty() = (size() = 0).
C2_CapacityInvariant ==
    /\ 0 <= size_load
    /\ size_load <= capacity
    /\ is_full <=> (size_load = capacity)
    /\ is_empty <=> (size_load = 0)

\* A push_overwrite on a full queue has returned: more pushes succeeded than
\* the queue holds, nothing was popped, and the size is the capacity.
C2_OverwrittenWhenFull ==
    /\ Len(pushed) > CAPACITY
    /\ popped = <<>>
    /\ is_full
    /\ Idle

\* C3: whenever the lock is free, tail = (head + size) mod CAPACITY.
C3_IndexInvariant == lock = Free => tail = (head + size_load) % CAPACITY

\* The first CAPACITY + 1 calls were pushes that all returned Ok, and no
\* push succeeded since: the queue was filled from empty by calls
\* 1..CAPACITY and call CAPACITY + 1 was a push_overwrite on the full queue.
FilledThenOverwritten ==
    /\ Len(pushed) = CAPACITY + 1
    /\ \A i \in 1..(CAPACITY + 1) : pushed[i] = i

\* C4: after filling from empty with v0..v(N-1), one push_overwrite(w)
\* succeeds, leaves size = N and head where it was and advances tail by one;
\* the next pop returns w, the N-1 pops after it return v1..v(N-1) in order.
C4_OverwriteOnFull ==
    FilledThenOverwritten =>
        /\ (calls = CAPACITY + 1 /\ pc[1] = "idle") => ret[1] = Ok
        /\ (popped = <<>> /\ pc[1] = "idle") =>
               (size_load = CAPACITY /\ head = 0 /\ tail = 1 % CAPACITY)
        /\ Len(popped) <= CAPACITY
        /\ \A i \in 1..Len(popped) :
               popped[i] = IF i = 1 THEN CAPACITY + 1 ELSE i

\* The overwrite happened and all CAPACITY pops after it have returned.
C4_OverwrittenAndDrained == FilledThenOverwritten /\ Len(popped) = CAPACITY

\* C5: every pop returns the oldest element of a FIFO queue whose
\* push_overwrite, when full, discards only the oldest element and puts the
\* new value last.
C5_FifoAcrossOverwrite ==
    [][\A t \in Threads :
          (pc[t] = "pop_size" /\ pc'[t] = "idle") =>
              (fifo # <<>> /\ ret'[t] = OkVal(Head(fifo)))]_vars

\* C6: with concurrent pushers and poppers (SpecPushPop), every successful
\* pop returns the value of a successful push, and no two pops return the
\* value of the same push.
C6_NoDoublePop ==
    /\ \A i \in 1..Len(popped) : \E j \in 1..Len(pushed) : pushed[j] = popped[i]
    /\ \A i, j \in 1..Len(popped) : i # j => popped[i] # popped[j]

\* Two threads have each popped an element.
C6_TwoPoppers ==
    \E t, u \in Threads :
        /\ t # u
        /\ ret[t].kind = "Ok" /\ ret[t].val # 0
        /\ ret[u].kind = "Ok" /\ ret[u].val # 0

\* C7: with concurrent non-overwriting pushes and pops (SpecPushPop), once
\* no thread is inside a call, size() = successful pushes - successful pops.
C7_CountConservation ==
    Idle => size_load = Len(pushed) - Len(popped)

\* Both threads have finished calls, pushes and pops have succeeded, and
\* elements are left in the queue.
C7_QuiescentAfterBoth ==
    /\ Idle
    /\ \A t \in Threads : ret[t].kind = "Ok"
    /\ Len(popped) >= 1
    /\ Len(pushed) > Len(popped)

\* C8: while a thread holds a RefGuard, it holds the lock, no other thread
\* is past lock() or completes a call, and no step changes head, tail, size,
\* a buffer slot or what the guard dereferences to.
C8_BorrowExclusive ==
    /\ [](\A t \in Threads : guard[t] # NoGuard =>
             /\ lock = t
             /\ \A u \in Threads \ {t} :
                    /\ guard[u] = NoGuard
                    /\ pc[u] \in {"idle", "dead"} \cup LockLabels)
    /\ [][\A t \in Threads : (guard[t] # NoGuard /\ guard'[t] # NoGuard) =>
             /\ qvars' = qvars
             /\ guard'[t] = guard[t]
             /\ Deref(t)' = Deref(t)
             /\ \A u \in Threads \ {t} : ret'[u] = ret[u] \/ ret'[u] = NoRet]_vars

\* A thread holds a guard on the only element while another thread's pop
\* waits for the lock.
C8_PopWaitsForGuard ==
    \E t, u \in Threads :
        /\ guard[t] # NoGuard
        /\ size_load = 1
        /\ pc[u] = "pop_lock"

\* C10: a push that holds the lock returns QueueFull exactly when
\* size = CAPACITY, and then changes nothing; otherwise it writes its value
\* at the old tail, leaves every other slot and head alone, and returns Ok
\* with size one larger.
C10_QueueFullContract ==
    [][\A t \in Threads :
          /\ (pc[t] = "push_check" /\ pc'[t] # "push_check") =>
                IF size_load = CAPACITY
                THEN ret'[t] = Err("QueueFull") /\ qvars' = qvars
                ELSE /\ ret'[t] = NoRet
                     /\ buffer' = [buffer EXCEPT ![tail] = input[t]]
                     /\ head' = head
          /\ (pc[t] = "push_size" /\ pc'[t] # "push_size") =>
                /\ ret'[t] = Ok
                /\ size_load' = size_load + 1
                /\ buffer' = buffer /\ head' = head /\ tail' = tail
          /\ (ret'[t] = Err("QueueFull") /\ ret[t] # ret'[t]) =>
                (pc[t] = "push_check" /\ size_load = CAPACITY)]_vars

\* A push has returned QueueFull.
C10_PushRefused == \E t \in Threads : ret[t] = Err("QueueFull")

C11_QueueEmptyContract ==
    [][\A t \in Threads :
          /\ (pc[t] = "pop_check" /\ pc'[t] # "pop_check") =>
                IF size_load = 0
                THEN /\ ret'[t] = Err("QueueEmpty")
                     /\ qvars' = qvars
                     /\ local'[t] = local[t]
                     /\ guard'[t] = NoGuard
                ELSE ret'[t] = NoRet /\ pc'[t] = "pop_size"
          /\ (pc[t] \in {"front_check", "back_check"} /\ pc'[t] # pc[t]) =>
                IF size_load = 0
                THEN /\ ret'[t] = Err("QueueEmpty")
                     /\ qvars' = qvars
                     /\ guard'[t] = NoGuard
                ELSE ret'[t] = Ok /\ guard'[t] # NoGuard
          /\ (ret'[t] = Err("QueueEmpty") /\ ret[t] # ret'[t]) =>
                (pc[t] \in {"pop_check", "front_check", "back_check"} /\ size_load = 0)]_vars

\* A call has returned QueueEmpty on a queue that was filled and drained.
C11_RefusedAfterDrain ==
    \E t \in Threads : ret[t] = Err("QueueEmpty") /\ Len(popped) >= 1

\* C12: a push, push_overwrite, pop, front or back that comes to a poisoned
\* lock returns MutexPoisoned, whatever the size, changes neither head, tail,
\* size nor a slot and hands out no guard; MutexPoisoned is returned in no
\* other case.
C12_MutexPoisonedContract ==
    [][\A t \in Threads :
          /\ (pc[t] \in LockLabels /\ poisoned /\ pc'[t] # pc[t]) =>
                /\ ret'[t] = Err("MutexPoisoned")
                /\ pc'[t] = "idle"
                /\ qvars' = qvars
                /\ guard'[t] = NoGuard
          /\ (ret'[t] = Err("MutexPoisoned") /\ ret[t] # ret'[t]) =>
                (pc[t] \in LockLabels /\ poisoned)]_vars

\* A call has returned MutexPoisoned on a full queue.
C12_PoisonedOnFull ==
    \E t \in Threads : ret[t] = Err("MutexPoisoned") /\ size_load = CAPACITY

OverwriteLabels == {"ow_lock", "ow_write", "ow_load", "ow_store"}

QueueRecord == [size |-> size, head |-> head, tail |-> tail, buffer |-> buffer]

\* The thread is between its lock acquisition and the release.
InSection(t) ==
    \/ pc[t] \in MutatorLabels \cup {"front_check", "back_check"}
    \/ guard[t] # NoGuard

\* C14: at most one thread is between lock acquisition and release, a guard's
\* lifetime included; every push, push_overwrite and pop returns what the
\* same call returned on a queue that runs the calls one at a time in the
\* order of the lock, and whenever the lock is free head, tail, size and the
\* slots are that queue's.
C14_Linearizable ==
    /\ [](\A t, u \in Threads : (InSection(t) /\ InSection(u)) => t = u)
    /\ [](lock = Free => QueueRecord = basic)
    /\ [][\A t \in Threads :
             (pc[t] \in MutatorLabels /\ pc'[t] = "idle") =>
                 /\ ret'[t] = expect
                 /\ QueueRecord' = basic']_vars

\* A mutator waits for the lock while another thread is inside a mutator,
\* after at least one push has returned.
C14_MutatorWaitsForMutator ==
    \E t, u \in Threads :
        /\ pc[t] \in MutatorLabels
        /\ pc[u] \in {"push_lock", "ow_lock", "pop_lock"}
        /\ Len(pushed) >= 1

\* C15: a thread that is not inside a call can make each of the four queries
\* in every state, whoever holds the lock and poisoned or not; the query
\* changes nothing of the queue, the lock or any thread, size() gives the
\* counter, is_empty() and is_full() compare it with 0 and CAPACITY, and
\* capacity() gives CAPACITY.
C15_QueriesNeverBlock ==
    /\ [](\A t \in Threads :
             pc[t] = "idle" =>
                 /\ ENABLED QuerySize(t)
                 /\ ENABLED QueryIsEmpty(t)
                 /\ ENABLED QueryIsFull(t)
                 /\ ENABLED QueryCapacity(t))
    /\ [][seen' # seen =>
             /\ UNCHANGED <<qvars, lock, poisoned, pc, input, local, guard, ret>>
             /\ seen'.op = "size" => seen'.num = size
             /\ seen'.op = "is_empty" => seen'.flag = (size = 0)
             /\ seen'.op = "is_full" => seen'.flag = (size = CAPACITY)
             /\ seen'.op = "capacity" => seen'.num = CAPACITY]_vars

\* size() was answered while another thread was inside a mutator and held
\* the lock.
C15_QueryDuringMutator ==
    /\ seen.op = "size"
    /\ seen.when = "mutator"

C18_BackIsNewestLive ==
    [][\A t \in Threads :
          (pc[t] = "back_check" /\ pc'[t] # "back_check" /\ size_load > 0) =>
              /\ qvars' = qvars
              /\ guard'[t] # NoGuard
              /\ buffer'[guard'[t]] = pushed[Len(pushed)]
              /\ \A i \in 1..Len(popped) : popped[i] # pushed[Len(pushed)]]_vars

\* C19: the slot a pop is about to copy out of, and the slot a live guard
\* of front() or back() points at, has been written by a push or
\* push_overwrite before: it is never an uninitialized one.
C19_NoUninitRead ==
    \A t \in Threads :
        /\ (pc[t] = "pop_check" /\ ~is_empty) => buffer[head] # Uninit
        /\ guard[t] # NoGuard => buffer[guard[t]] # Uninit

\* After tail has wrapped around, a back() guard points at a slot that is
\* not the one the next pop reads.
C19_BackGuardAfterWrap ==
    \E t \in Threads :
        /\ guard[t] # NoGuard
        /\ guard[t] # head
        /\ guard[t] = BackIndex(tail)
        /\ Len(popped) >= 1
        /\ tail < head

\* The labels from which the next step of a thread writes or loads the
\* atomic counter for a later store.
SizeLabels == {"push_size", "ow_load", "ow_store", "pop_size"}

\* C20: a thread that is about to fetch_add, fetch_sub, load-for-store or
\* store the counter holds the lock; the value push_ref_overwrite loaded is
\* still the counter's when it stores; the counter changes only in such a
\* step of the lock's holder, by exactly the update of that step.
C20_SizeWrittenUnderLock ==
    /\ [](\A t \in Threads : pc[t] \in SizeLabels => lock = t)
    /\ [](\A t \in Threads : pc[t] = "ow_store" => local[t] = Min(size + 1, CAPACITY))
    /\ [][\A t \in Threads :
             /\ (pc[t] = "push_size" /\ pc'[t] # "push_size") => size' = size + 1
             /\ (pc[t] = "pop_size" /\ pc'[t] # "pop_size") => size' = size - 1
             /\ (pc[t] = "ow_store" /\ pc'[t] # "ow_store") => size' = Min(size + 1, CAPACITY)]_vars
    /\ [][size' # size =>
             \E t \in Threads :
                 /\ lock = t
                 /\ pc[t] \in {"push_size", "ow_store", "pop_size"}
                 /\ pc'[t] = "idle"]_vars

\* A push_overwrite has loaded the counter and is about to store it while
\* another thread's push waits for the lock.
C20_StorePending ==
    \E t, u \in Threads :
        /\ pc[t] = "ow_store"
        /\ pc[u] = "push_lock"
        /\ size >= 1

\* C21: once a thread has panicked with the lock or a guard in its hands the
\* lock is poisoned and stays so; from then on head, tail, size and the
\* slots never change, no thread gets the lock or a guard, and every call
\* that returns, returns MutexPoisoned.
C21_PoisonPermanent ==
    /\ []((\E t \in Threads : pc[t] = "dead") => poisoned)
    /\ [](poisoned =>
             /\ lock = Free
             /\ \A t \in Threads : guard[t] = NoGuard /\ pc[t] \in LockLabels \cup {"idle", "dead"})
    /\ [][poisoned =>
             /\ poisoned'
             /\ qvars' = qvars
             /\ \A t \in Threads :
                   (pc[t] # "idle" /\ pc'[t] = "idle") => ret'[t] = Err("MutexPoisoned")]_vars

\* A thread has panicked, and the last call of the run, made by another
\* thread on a queue with one element, has returned MutexPoisoned.
C21_RefusedAfterPanic ==
    \E t, u \in Threads :
        /\ pc[t] = "dead"
        /\ pc[u] = "idle"
        /\ ret[u] = Err("MutexPoisoned")
        /\ calls = MaxCalls
        /\ pushed = <<1>>

\* C22: on a queue that is not full push_overwrite(v) gives what push(v)
\* gives.  For the BasicTypedQueue: in every state it reaches with
\* size < CAPACITY the two calls give the same result and the same queue,
\* for every value.  For the shared queue: the push_overwrite that gets the
\* lock with size < CAPACITY returns, and leaves head, tail, size and slots,
\* as push (BasicPushRef, which the shared push equals by C16) does from the
\* state at the lock.
C22_OverwriteAsPushWhenNotFull ==
    /\ [](basic.size < CAPACITY =>
             \A v \in 1..MaxSeqCalls : BasicPushRefOverwrite(basic, v) = BasicPushRef(basic, v))
    /\ [][\A t \in Threads :
             /\ (pc[t] = "ow_lock" /\ pc'[t] = "ow_write" /\ size < CAPACITY) =>
                   /\ basic' = BasicPushRef(QueueRecord, input[t]).q
                   /\ expect' = BasicPushRef(QueueRecord, input[t]).r
             /\ (pc[t] = "ow_store" /\ pc'[t] = "idle") =>
                   /\ QueueRecord' = basic
                   /\ ret'[t] = expect
             /\ (pc[t] = "push_size" /\ pc'[t] = "idle") =>
                   /\ QueueRecord' = basic
                   /\ ret'[t] = expect]_vars

\* A push_overwrite is about to store the size of a queue that pops have
\* made room in.
C22_OverwriteAfterPop ==
    \E t \in Threads :
        /\ pc[t] = "ow_store"
        /\ size < CAPACITY
        /\ Len(popped) >= 1

\* C23: head and tail stay in 0..CAPACITY-1.  The write step of a push or
\* push_overwrite that goes on to return Ok moves tail one slot on (mod
\* CAPACITY), changes the slot at the old tail to the value and no other
\* slot, and leaves head; its last step changes neither head, tail nor a
\* slot.  The read step of a successful pop moves head one slot on and leaves
\* tail and the slots; its last step takes 1 off size and leaves head, tail
\* and the slots.  The BasicTypedQueue's push, push_overwrite and pop, taken
\* as one step each, keep to the same frame.
C23_MutatorFrame ==
    /\ [](head \in Slots /\ tail \in Slots)
    /\ [](basic.head \in Slots /\ basic.tail \in Slots)
    /\ [][\A t \in Threads :
             /\ (pc[t] \in {"push_lock", "ow_lock"} /\ expect' = Ok) =>
                   /\ basic'.tail = (basic.tail + 1) % CAPACITY
                   /\ basic'.head = basic.head
                   /\ basic'.buffer[basic.tail] = input[t]
                   /\ \A i \in Slots \ {basic.tail} : basic'.buffer[i] = basic.buffer[i]
             /\ (pc[t] = "pop_lock" /\ expect'.kind = "Ok") =>
                   /\ basic'.head = (basic.head + 1) % CAPACITY
                   /\ basic'.size = basic.size - 1
                   /\ basic'.tail = basic.tail
                   /\ basic'.buffer = basic.buffer]_vars
    /\ [][\A t \in Threads :
             /\ (pc[t] \in {"push_check", "ow_write"} /\ pc'[t] \in {"push_size", "ow_load"}) =>
                   /\ tail' = (tail + 1) % CAPACITY
                   /\ head' = head
                   /\ buffer'[tail] = input[t]
                   /\ \A i \in Slots \ {tail} : buffer'[i] = buffer[i]
             /\ (pc[t] \in {"push_size", "ow_load", "ow_store"} /\ pc'[t] # pc[t]) =>
                   /\ ret'[t] \in {NoRet, Ok}
                   /\ head' = head /\ tail' = tail /\ buffer' = buffer
             /\ (pc[t] = "pop_check" /\ pc'[t] = "pop_size") =>
                   /\ head' = (head + 1) % CAPACITY
                   /\ tail' = tail /\ buffer' = buffer /\ size' = size
             /\ (pc[t] = "pop_size" /\ pc'[t] # "pop_size") =>
                   /\ ret'[t].kind = "Ok"
                   /\ size' = size - 1
                   /\ head' = head /\ tail' = tail /\ buffer' = buffer]_vars

\* Pops have taken head once around the buffer, after more pushes than
\* slots with an overwrite among them.
C23_HeadWrapped ==
    /\ Idle
    /\ head = 0
    /\ Len(popped) = CAPACITY
    /\ Len(pushed) > CAPACITY
    /\ Len(fifo) < Len(pushed) - Len(popped)

\* C24: a push that passes its is_full() test writes a slot that was never
\* written or whose value a pop has returned, and no value is returned by
\* two pops.
C24_PushKeepsLiveElements ==
    /\ [][\A t \in Threads :
             (pc[t] = "push_check" /\ pc'[t] = "push_size") =>
                 \/ buffer[tail] = Uninit
                 \/ \E i \in 1..Len(popped) : popped[i] = buffer[tail]]_vars
    /\ [](\A i, j \in 1..Len(popped) : popped[i] = popped[j] => i = j)

\* C25: a thread that is not inside a call holds the lock exactly when it
\* holds a RefGuard; a call that returns leaves the lock with its thread
\* exactly when it is a front() or back() that returns Ok with a guard, and
\* releases it on every other return (Ok of a mutator, QueueFull, QueueEmpty,
\* MutexPoisoned).
C25_LockHeldOnlyByGuard ==
    /\ [](\A t \in Threads :
             pc[t] \in {"idle", "dead"} => (lock = t <=> guard[t] # NoGuard))
    /\ [][\A t \in Threads :
             (pc[t] # "idle" /\ pc'[t] = "idle") =>
                 /\ lock' = t <=> (pc[t] \in {"front_check", "back_check"} /\ ret'[t] = Ok)
                 /\ lock' = t <=> guard'[t] # NoGuard
                 /\ lock' # t => lock' = Free]_vars

\* One thread holds a guard and the lock after another thread's call has
\* returned QueueEmpty.
C25_GuardAfterRefusal ==
    \E t, u \in Threads :
        /\ pc[t] = "idle"
        /\ guard[t] # NoGuard
        /\ lock = t
        /\ u # t
        /\ ret[u] = Err("QueueEmpty")

\* The thread has called front() or back() while it holds a guard.
Relocking(t) == pc[t] \in LockLabels /\ lock = t

====
